---- MODULE Spec2Model ----
(***************************************************************************)
(* Model of the Multi-Model-Bot backend (main.py): the keyword router      *)
(* determine_adapter, the two provider adapters (GroqAdapter,              *)
(* GeminiImageAdapter), the /chat handler with its ChatHistory table and   *)
(* the /sessions and /history queries.                                     *)
(*                                                                         *)
(* Text is modelled as a sequence of one-character strings so that         *)
(* str.lower, the `in` substring test, str.replace and slicing are         *)
(* computed character by character.                                        *)
(***************************************************************************)
EXTENDS Integers, Sequences, FiniteSets, TLC

(* ----------------------------- bounds --------------------------------- *)
\* longest prompt of the router probe, in fragments
MaxFrags == 3

\* number of /chat requests of one run
MaxReq == 2

\* worker threads of the event loop's default executor (CPython sizes it
\* min(32, cpu_count + 4)); scaled down
PoolSize == 1

(* ------------------------- text primitives ---------------------------- *)
UpperAlpha ==
  <<"A", "B", "C", "D", "E", "F", "G", "H", "I", "J", "K", "L", "M",
    "N", "O", "P", "Q", "R", "S", "T", "U", "V", "W", "X", "Y", "Z">>

LowerAlpha ==
  <<"a", "b", "c", "d", "e", "f", "g", "h", "i", "j", "k", "l", "m",
    "n", "o", "p", "q", "r", "s", "t", "u", "v", "w", "x", "y", "z">>

\* str.lower on one character
LowerChar(c) ==
  IF \E i \in 1..26 : UpperAlpha[i] = c
  THEN LowerAlpha[CHOOSE i \in 1..26 : UpperAlpha[i] = c]
  ELSE c

\* variant: no case folding
LowerKeepCase(s) == s

\* str.lower
Lower(s) == [i \in 1..Len(s) |-> LowerChar(s[i])]

\* Python's `sub in s` on strings
Contains(sub, s) ==
  \E i \in 1..(Len(s) - Len(sub) + 1) : SubSeq(s, i, i + Len(sub) - 1) = sub

\* s.replace(' ', '%20')
RECURSIVE ReplaceSpaces(_)
ReplaceSpaces(s) ==
  IF s = <<>> THEN <<>>
  ELSE (IF Head(s) = " " THEN <<"%", "2", "0">> ELSE <<Head(s)>>)
       \o ReplaceSpaces(Tail(s))

\* s[:n]
Take(s, n) == SubSeq(s, 1, IF Len(s) < n THEN Len(s) ELSE n)

\* Python's None
None == [none |-> TRUE]

\* a string value: the literal lit followed by the characters chars
Text(lit, chars) == [lit |-> lit, chars |-> chars]

\* dict.get(k): None when the key is absent
Get(d, k) == IF k \in DOMAIN d THEN d[k] ELSE None

\* truth value of a dict.get result: None and "" are falsy
Truthy(v) == v # None /\ v # Text("", <<>>)

\* str(v)
Str(v) == IF v = None THEN Text("None", <<>>) ELSE v

(* ------------------------------ adapters ------------------------------ *)
GROQ_ADAPTER == [name |-> "llama-3.3-70b-versatile", provider |-> "groq"]

GEMINI_ADAPTER == [name |-> "imagen-3.0-generate-001", provider |-> "google-gemini"]

\* how a block of code ends: it returns a value, raises, or runs off its end
Return(v) == [kind |-> "return", value |-> v]
Raise(msg) == [kind |-> "raise", msg |-> msg]
FallThrough == [kind |-> "fallthrough"]

\* what the Gemini endpoint can answer to client.post: no answer at all
\* (connection error, timeout) or an HTTP response with a status and a body
\* that is JSON or not
B64 == <<"i", "V", "B", "O", "R", "w", "0", "K">>

GeminiDocs ==
  { [predictions |-> << [bytesBase64Encoded |-> B64] >>],
    [predictions |-> << [mimeType |-> "image/png"] >>],
    [predictions |-> << >>],
    [error |-> "PERMISSION_DENIED"] }

GeminiReplies ==
  { [raised |-> TRUE] }
  \cup { [raised |-> FALSE, status |-> st, is_json |-> TRUE, doc |-> d] :
           st \in {200, 403, 500}, d \in GeminiDocs }
  \cup { [raised |-> FALSE, status |-> st, is_json |-> FALSE] :
           st \in {200, 403} }

\* resp.json()['predictions'][0]['bytesBase64Encoded']
ExtractB64(resp) ==
  IF ~resp.is_json THEN Raise("JSONDecodeError")
  ELSE IF "predictions" \notin DOMAIN resp.doc THEN Raise("KeyError")
  ELSE IF Len(resp.doc.predictions) = 0 THEN Raise("IndexError")
  ELSE IF "bytesBase64Encoded" \notin DOMAIN resp.doc.predictions[1]
       THEN Raise("KeyError")
  ELSE Return(resp.doc.predictions[1].bytesBase64Encoded)

\* body of the try block of GeminiImageAdapter.generate
GeminiTryBody(reply) ==
  IF reply.raised THEN Raise("httpx error")
  ELSE IF reply.status = 200
       THEN LET b64 == ExtractB64(reply)
            IN IF b64.kind = "raise" THEN b64
               ELSE Return([image_url |-> Text("data:image/png;base64,", b64.value),
                            type |-> "image"])
  ELSE FallThrough

\* variant: the handler lets the exception through
ExceptReraise(o) == o

\* `except: pass`
ExceptPass(o) == IF o.kind = "raise" THEN FallThrough ELSE o

\* the fallback return of GeminiImageAdapter.generate
PollinationsResult(prompt) ==
  [image_url |-> Text("https://image.pollinations.ai/prompt/",
                       ReplaceSpaces(prompt)),
   type |-> "image"]

\* GeminiImageAdapter.generate; reply is ignored when the key is missing
GeminiGenerate(prompt, key, reply) ==
  LET primary == IF key THEN ExceptPass(GeminiTryBody(reply)) ELSE FallThrough
  IN IF primary.kind = "fallthrough" THEN Return(PollinationsResult(prompt))
     ELSE primary

\* what the Groq SDK call can do: return the message content or raise
GroqReplies ==
  { [raised |-> FALSE, content |-> Text("Hello", <<>>)],
    [raised |-> FALSE, content |-> Text("", <<>>)],
    [raised |-> TRUE, msg |-> "rate limit exceeded"] }

\* GroqAdapter.generate up to the executor hand-off
GroqPrecheck(client) ==
  IF ~client THEN Raise("GROQ_API_KEY missing") ELSE FallThrough

\* GroqAdapter.generate once the executor future is resolved
GroqFinish(reply) ==
  IF reply.raised THEN Raise(reply.msg)
  ELSE Return([text |-> reply.content, type |-> "text"])

(* ------------------------------- router ------------------------------- *)
IMAGE_KEYWORDS ==
    { <<"i", "m", "a", "g", "e">>,
      <<"g", "e", "n", "e", "r", "a", "t", "e">>,
      <<"d", "r", "a", "w">>,
      <<"c", "r", "e", "a", "t", "e">>,
      <<"i", "l", "l", "u", "s", "t", "r", "a", "t", "e">>,
      <<"p", "i", "c", "t", "u", "r", "e">>,
      <<"l", "o", "g", "o">>,
      <<"a", "v", "a", "t", "a", "r">>,
      <<"p", "o", "r", "t", "r", "a", "i", "t">>,
      <<"s", "c", "e", "n", "e">>,
      <<"r", "e", "n", "d", "e", "r">>,
      <<"p", "a", "i", "n", "t">>,
      <<"s", "k", "e", "t", "c", "h">>,
      <<"p", "h", "o", "t", "o">>,
      <<"p", "h", "o", "t", "o", "g", "r", "a", "p", "h">>,
      <<"v", "i", "s", "u", "a", "l">>,
      <<"g", "r", "a", "p", "h", "i", "c">>,
      <<"d", "e", "s", "i", "g", "n">>,
      <<"c", "i", "n", "e", "m", "a", "t", "i", "c">>,
      <<"4", "k">> }

\* the two literals tested before the image keywords
CodeWord == <<"c", "o", "d", "e">>
FunctionWord == <<"f", "u", "n", "c", "t", "i", "o", "n">>

\* the literal "image"
ImageWord == <<"i", "m", "a", "g", "e">>

\* variant: only "code" is tested
AsksForCodeOnly(prompt_lower) == Contains(CodeWord, prompt_lower)

\* `"code" in prompt_lower or "function" in prompt_lower`
AsksForCode(prompt_lower) ==
  Contains(CodeWord, prompt_lower) \/ Contains(FunctionWord, prompt_lower)

\* the loop over IMAGE_KEYWORDS
HasImageTrigger(prompt_lower) ==
  \E word \in IMAGE_KEYWORDS : Contains(word, prompt_lower)

\* variant: the keyword search runs before the mode hint is looked at
determine_adapter_keywords_first(prompt, mode_hint) ==
  LET prompt_lower == Lower(prompt)
  IN IF AsksForCode(prompt_lower) THEN GROQ_ADAPTER
     ELSE IF HasImageTrigger(prompt_lower) THEN GEMINI_ADAPTER
     ELSE IF mode_hint = "image" THEN GEMINI_ADAPTER
     ELSE GROQ_ADAPTER

\* variant: the code test yields to the literal "image"
determine_adapter_image_wins(prompt, mode_hint) ==
  IF mode_hint = "image" THEN GEMINI_ADAPTER
  ELSE IF mode_hint = "text" THEN GROQ_ADAPTER
  ELSE LET prompt_lower == Lower(prompt)
       IN IF AsksForCode(prompt_lower) /\ ~Contains(ImageWord, prompt_lower)
          THEN GROQ_ADAPTER
          ELSE IF HasImageTrigger(prompt_lower) THEN GEMINI_ADAPTER
          ELSE GROQ_ADAPTER

determine_adapter(prompt, mode_hint) ==
  IF mode_hint = "image" THEN GEMINI_ADAPTER
  ELSE IF mode_hint = "text" THEN GROQ_ADAPTER
  ELSE LET prompt_lower == Lower(prompt)
       IN IF AsksForCode(prompt_lower) THEN GROQ_ADAPTER
          ELSE IF HasImageTrigger(prompt_lower) THEN GEMINI_ADAPTER
          ELSE GROQ_ADAPTER

(* --------------------------- probe inputs ----------------------------- *)
\* pieces the probe prompts are built from; joined they give mixed-case
\* keywords, keywords split across pieces ("fun" + "ction") and spaces
Fragments ==
  { <<"C", "o", "d", "e">>, <<"f", "u", "n">>, <<"c", "t", "i", "o", "n">>,
    <<"i", "m", "a", "g", "e">>, <<"D", "r", "a", "w">>, <<" ">>,
    <<"4", "K">>, <<"x">> }

RECURSIVE Joined(_)
Joined(n) ==
  IF n = 0 THEN { <<>> }
  ELSE LET shorter == Joined(n - 1)
       IN shorter \cup { s \o f : s \in shorter, f \in Fragments }

Prompts == Joined(MaxFrags)

\* ChatRequest.mode is any string; the default is "auto"
Modes == {"auto", "text", "image", "code"}

(* ---------------------------- chat inputs ---------------------------- *)
Users == {1, 2}

SessionIds == {"s1", "s2"}

\* one prompt the router sends to the text adapter and one, with a space, it
\* sends to the image adapter
ChatPrompts == { <<"C", "o", "d", "e">>, <<"D", "r", "a", "w", " ", "x">> }

\* the client posts no mode, so ChatRequest.mode takes its default
ChatModes == {"auto"}

\* answers of the Gemini endpoint seen by /chat: no answer, a refusal, a 200
\* with the image
ChatGeminiReplies ==
  { reply \in GeminiReplies :
      \/ reply.raised
      \/ reply.status = 403 /\ reply.is_json /\ "error" \in DOMAIN reply.doc
      \/ reply.status = 200 /\ reply.is_json
           /\ reply.doc = [predictions |-> << [bytesBase64Encoded |-> B64] >>] }

\* outcomes of the Groq call seen by /chat
ChatGroqReplies == { reply \in GroqReplies : reply.raised \/ reply.content.lit # "" }

Slots == 1..MaxReq

(* ------------------------------- state -------------------------------- *)
VARIABLES
  groqKey,      \* GROQ_API_KEY is non-empty (GroqAdapter.client is not None)
  geminiKey,    \* GEMINI_API_KEY is non-empty
  probePrompt,  \* router probe: the prompt under test
  probeMode,    \* router probe: the mode hint under test
  probeAdapter, \* router probe: result of determine_adapter, or None
  probeOut,     \* router probe: how adapter.generate ended, or None
  req,          \* /chat requests in arrival order: position in chat, inputs, adapter
  workq,        \* executor work queue: requests whose call() awaits a thread
  history,      \* the ChatHistory table, in insertion order
  author,       \* for each row of the table, the user whose /chat call added it
  clock,        \* timestamp of the newest row (0: no row yet)
  lastReply     \* the /chat, /sessions or /history response being delivered, or None

probeVars == <<probePrompt, probeMode, probeAdapter, probeOut>>
chatVars == <<req, workq, history, author, clock, lastReply>>
vars == <<groqKey, geminiKey, probePrompt, probeMode, probeAdapter, probeOut,
          req, workq, history, author, clock, lastReply>>

\* a request slot no request has arrived in
FreeSlot ==
  [pc |-> "free", user |-> 0, session_id |-> "", prompt |-> <<>>, mode |-> "",
   adapter |-> None]

\* a request slot whose response has gone out
DoneSlot == [FreeSlot EXCEPT !.pc = "done"]

NoChat ==
  /\ req = [r \in Slots |-> FreeSlot]
  /\ workq = <<>>
  /\ history = <<>>
  /\ author = <<>>
  /\ clock = 0
  /\ lastReply = None

(* ------------- router probe: one request at a time, no database ------- *)
ProbeInit ==
  /\ groqKey \in BOOLEAN
  /\ geminiKey \in BOOLEAN
  /\ probePrompt \in Prompts
  /\ probeMode \in Modes
  /\ probeAdapter = None
  /\ probeOut = None
  /\ NoChat

\* adapter = determine_adapter(req.prompt, req.mode)
ProbeRoute ==
  /\ probeAdapter = None
  /\ probeAdapter' = determine_adapter(probePrompt, probeMode)
  /\ UNCHANGED <<groqKey, geminiKey, probePrompt, probeMode, probeOut, chatVars>>

\* out = await GEMINI_ADAPTER.generate(req.prompt)
ProbeGenerateImage ==
  /\ probeAdapter = GEMINI_ADAPTER
  /\ probeOut = None
  /\ \E reply \in GeminiReplies :
       probeOut' = [reply |-> IF geminiKey THEN reply ELSE None,
                    end |-> GeminiGenerate(probePrompt, geminiKey, reply)]
  /\ UNCHANGED <<groqKey, geminiKey, probePrompt, probeMode, probeAdapter, chatVars>>

\* out = await GROQ_ADAPTER.generate(req.prompt)
ProbeGenerateText ==
  /\ probeAdapter = GROQ_ADAPTER
  /\ probeOut = None
  /\ \E reply \in GroqReplies :
       LET pre == GroqPrecheck(groqKey)
       IN probeOut' = [reply |-> IF groqKey THEN reply ELSE None,
                       end |-> IF pre.kind = "raise" THEN pre
                               ELSE GroqFinish(reply)]
  /\ UNCHANGED <<groqKey, geminiKey, probePrompt, probeMode, probeAdapter, chatVars>>

ProbeNext == ProbeRoute \/ ProbeGenerateImage \/ ProbeGenerateText

SpecProbe == ProbeInit /\ [][ProbeNext]_vars

(* --------------------------- the /chat handler ------------------------ *)
\* raise HTTPException(500, str(e))
HTTP500(msg) == [status |-> 500, detail |-> msg]

\* return {"output": out, "model": adapter.name}
HTTP200(out, adapter) == [status |-> 200, output |-> out, model |-> adapter.name]

\* out.get("text") or out.get("image_url")
TextOut(out) ==
  IF Truthy(Get(out, "text")) THEN Get(out, "text") ELSE Get(out, "image_url")

\* the ChatHistory(...) row added by chat; id is the autoincrement key
HistoryRow(id, rq, out, ts) ==
  [id |-> id, user_id |-> rq.user, session_id |-> rq.session_id,
   prompt |-> rq.prompt, response |-> Str(TextOut(out)),
   model_used |-> rq.adapter.name, timestamp |-> ts]

\* variant: a text failure is answered with the fallback image
ChatFinishImageRescue(rq, end, hist, ts, commitOk) ==
  LET out == IF end.kind = "raise" /\ rq.adapter = GROQ_ADAPTER
             THEN Return(PollinationsResult(rq.prompt))
             ELSE end
  IN IF out.kind = "raise" THEN [resp |-> HTTP500(out.msg), history |-> hist]
     ELSE IF ~commitOk
          THEN [resp |-> HTTP500("database is locked"), history |-> hist]
     ELSE [resp |-> HTTP200(out.value, rq.adapter),
           history |-> Append(hist, HistoryRow(Len(hist) + 1, rq, out.value, ts))]

\* variant: the row is added and committed before generate is awaited
ChatFinishSaveFirst(rq, end, hist, ts, commitOk) ==
  IF ~commitOk THEN [resp |-> HTTP500("database is locked"), history |-> hist]
  ELSE LET out == IF end.kind = "raise" THEN [type |-> "pending"] ELSE end.value
           saved == Append(hist, HistoryRow(Len(hist) + 1, rq, out, ts))
       IN IF end.kind = "raise"
          THEN [resp |-> HTTP500(end.msg), history |-> saved]
          ELSE [resp |-> HTTP200(end.value, rq.adapter), history |-> saved]

\* chat from the point where `await adapter.generate` has ended with `end`:
\* the response and the table afterwards
ChatFinish(rq, end, hist, ts, commitOk) ==
  IF end.kind = "raise" THEN [resp |-> HTTP500(end.msg), history |-> hist]
  ELSE IF ~commitOk
       THEN [resp |-> HTTP500("database is locked"), history |-> hist]
  ELSE [resp |-> HTTP200(end.value, rq.adapter),
        history |-> Append(hist, HistoryRow(Len(hist) + 1, rq, end.value, ts))]

\* variant: call() is run directly in the coroutine
TextCallInline == FALSE

\* loop.run_in_executor(None, call): the blocking SDK call runs on a worker
\* thread, not on the event loop
TextCallOffloaded == TRUE

\* the event loop is not held by a blocking call
LoopIdle == \A r \in Slots : req[r].pc # "inline"

\* text calls that hold a worker thread
Running == {r \in Slots : req[r].pc = "calling"}

\* a worker thread is free to take the next work item
WorkerAvailable == Cardinality(Running) < PoolSize

\* datetime.utcnow() read for a new row: equal to or later than the newest
\* row's; only the order of timestamps matters, so the first row's is 1
Now == IF history = <<>> THEN {1} ELSE {clock, clock + 1}

\* the request ends: the row is saved or not, the response goes out
Respond(r, rq, reply, end) ==
  \E ts \in Now, commitOk \in BOOLEAN :
    LET fin == ChatFinish(rq, end, history, ts, commitOk)
    IN /\ req' = [req EXCEPT ![r] = DoneSlot]
       /\ history' = fin.history
       /\ author' = IF fin.history # history THEN Append(author, rq.user)
                     ELSE author
       /\ clock' = IF fin.history # history THEN ts ELSE clock
       /\ lastReply' = [op |-> "chat", slot |-> r, request |-> rq,
                        reply |-> reply, resp |-> fin.resp]

\* chat up to its first suspension: routing, then generate until it awaits
\* (or ends without awaiting)
ChatStart(r) ==
  /\ LoopIdle
  /\ req[r].pc = "free"
  /\ \A q \in Slots : q < r => req[q].pc # "free"
  /\ \E p \in ChatPrompts, m \in ChatModes, u \in Users, sid \in SessionIds :
       LET a == determine_adapter(p, m)
           rq == [FreeSlot EXCEPT !.user = u, !.session_id = sid, !.prompt = p,
                                  !.mode = m, !.adapter = a]
       IN IF a = GROQ_ADAPTER
          THEN LET pre == GroqPrecheck(groqKey)
               IN IF pre.kind = "raise"
                  THEN Respond(r, rq, None, pre) /\ UNCHANGED workq
                  ELSE IF TextCallOffloaded
                       THEN /\ req' = [req EXCEPT ![r] = [rq EXCEPT !.pc = "queued"]]
                            /\ workq' = Append(workq, r)
                            /\ lastReply' = None
                            /\ UNCHANGED <<history, author, clock>>
                       ELSE /\ req' = [req EXCEPT ![r] = [rq EXCEPT !.pc = "inline"]]
                            /\ lastReply' = None
                            /\ UNCHANGED <<workq, history, author, clock>>
          ELSE IF geminiKey
               THEN /\ req' = [req EXCEPT ![r] = [rq EXCEPT !.pc = "posting"]]
                    /\ lastReply' = None
                    /\ UNCHANGED <<workq, history, author, clock>>
               ELSE Respond(r, rq, None, GeminiGenerate(p, geminiKey, None))
                    /\ UNCHANGED workq
  /\ UNCHANGED <<groqKey, geminiKey, probeVars>>

\* a worker thread of the executor takes the oldest work item and starts
\* call()
WorkerTake(r) ==
  /\ workq # <<>>
  /\ r = Head(workq)
  /\ WorkerAvailable
  /\ req' = [req EXCEPT ![r].pc = "calling"]
  /\ workq' = Tail(workq)
  /\ lastReply' = None
  /\ UNCHANGED <<groqKey, geminiKey, probeVars, history, author, clock>>

\* client.chat.completions.create(...) returns or raises, the event loop
\* resumes chat: generate ends, the row is saved, the response goes out
GroqReturns(r) ==
  /\ \/ req[r].pc = "calling" /\ LoopIdle
     \/ req[r].pc = "inline"
  /\ \E reply \in ChatGroqReplies : Respond(r, req[r], reply, GroqFinish(reply))
  /\ UNCHANGED <<groqKey, geminiKey, probeVars, workq>>

\* client.post(...) returns or raises, the event loop resumes chat: generate
\* ends, the row is saved, the response goes out
GeminiAnswers(r) ==
  /\ LoopIdle
  /\ req[r].pc = "posting"
  /\ \E reply \in ChatGeminiReplies :
       Respond(r, req[r], reply, GeminiGenerate(req[r].prompt, geminiKey, reply))
  /\ UNCHANGED <<groqKey, geminiKey, probeVars, workq>>

(* ------------------------ /sessions and /history ---------------------- *)
\* length of a session title
TitleLen == 40

\* the rows of a table as a set
RowsOf(hist) == {hist[i] : i \in 1..Len(hist)}

\* the sequences a query may return for `rows` ordered by timestamp; rows of
\* equal timestamp come in any order
RECURSIVE OrderedBy(_, _)
OrderedBy(rows, descending) ==
  IF rows = {} THEN { <<>> }
  ELSE LET first == { x \in rows :
                       \A y \in rows :
                         IF descending THEN x.timestamp >= y.timestamp
                                       ELSE x.timestamp <= y.timestamp }
       IN UNION { { <<x>> \o rest : rest \in OrderedBy(rows \ {x}, descending) } :
                  x \in first }

\* the loop of get_sessions over the query result
RECURSIVE UniqueSessions(_, _)
UniqueSessions(results, seen) ==
  IF results = <<>> THEN <<>>
  ELSE LET row == Head(results)
       IN IF row.session_id \notin seen
          THEN << [id |-> row.session_id, title |-> Take(row.prompt, TitleLen),
                   time |-> row.timestamp] >>
               \o UniqueSessions(Tail(results), seen \cup {row.session_id})
          ELSE UniqueSessions(Tail(results), seen)

\* .where(ChatHistory.user_id == user.id)
SessionsWhere(hist, user) == {row \in RowsOf(hist) : row.user_id = user}

\* variant: the session alone selects the rows
HistoryWhereSessionOnly(hist, user, session_id) ==
  {row \in RowsOf(hist) : row.session_id = session_id}

\* .where(ChatHistory.user_id == user.id, ChatHistory.session_id == session_id)
HistoryWhere(hist, user, session_id) ==
  {row \in RowsOf(hist) : row.user_id = user /\ row.session_id = session_id}

get_sessions(u) ==
  /\ LoopIdle
  /\ \E results \in OrderedBy(SessionsWhere(history, u), TRUE) :
       lastReply' = [op |-> "sessions", user |-> u,
                     body |-> UniqueSessions(results, {})]
  /\ UNCHANGED <<groqKey, geminiKey, probeVars, req, workq, history, author, clock>>

get_history(u, sid) ==
  /\ LoopIdle
  /\ \E results \in OrderedBy(HistoryWhere(history, u, sid), FALSE) :
       lastReply' = [op |-> "history", user |-> u, session_id |-> sid,
                     body |-> results]
  /\ UNCHANGED <<groqKey, geminiKey, probeVars, req, workq, history, author, clock>>

(* ------------------------------ the service --------------------------- *)
Init ==
  /\ groqKey \in BOOLEAN
  /\ geminiKey \in BOOLEAN
  /\ probePrompt = <<>>
  /\ probeMode = "auto"
  /\ probeAdapter = None
  /\ probeOut = None
  /\ NoChat

Next ==
  \/ \E r \in Slots : ChatStart(r)
  \/ \E r \in Slots : WorkerTake(r)
  \/ \E r \in Slots : GroqReturns(r)
  \/ \E r \in Slots : GeminiAnswers(r)
  \/ \E u \in Users : get_sessions(u)
  \/ \E u \in Users, sid \in SessionIds : get_history(u, sid)

Spec == Init /\ [][Next]_vars

(* ======================= properties of the router ===================== *)
\* the probe has routed its prompt
Routed == probeAdapter # None

\* the probe runs in auto mode: the hint is neither "image" nor "text"
AutoMode == probeMode \notin {"image", "text"}

\* the code keywords
CODE_KEYWORDS == {CodeWord, FunctionWord}

\* c is the lower-case letter d or its upper-case form, or the same character
SameLetter(c, d) ==
  c = d \/ \E n \in 1..26 : UpperAlpha[n] = c /\ LowerAlpha[n] = d

\* the lower-case word w occurs in p, letter case ignored
Occurs(w, p) ==
  \E i \in 0..(Len(p) - Len(w)) : \A k \in 1..Len(w) : SameLetter(p[i + k], w[k])

HasCodeKeyword(p) == \E w \in CODE_KEYWORDS : Occurs(w, p)
HasImageKeyword(p) == \E w \in IMAGE_KEYWORDS : Occurs(w, p)
HasImageLiteral(p) == Occurs(ImageWord, p)

\* C2: with the hint "image" the image adapter is selected and with the hint
\* "text" the text adapter, whatever keywords the prompt contains.
C2_HintOverridesKeywords ==
  Routed =>
    /\ probeMode = "image" => probeAdapter = GEMINI_ADAPTER
    /\ probeMode = "text" => probeAdapter = GROQ_ADAPTER

\* a code prompt forced to the image adapter and an image prompt forced to
\* the text adapter
C2_Witness ==
  /\ Routed
  /\ \/ probeMode = "image" /\ HasCodeKeyword(probePrompt)
        /\ probeAdapter = GEMINI_ADAPTER
     \/ probeMode = "text" /\ HasImageKeyword(probePrompt)
        /\ ~HasCodeKeyword(probePrompt) /\ probeAdapter = GROQ_ADAPTER

\* C3: in auto mode a prompt with a code keyword and without the substring
\* "image" goes to the text adapter, also when it holds other image keywords.
C3_CodeWithoutImageIsText ==
  (Routed /\ AutoMode /\ HasCodeKeyword(probePrompt)
     /\ ~HasImageLiteral(probePrompt))
  => probeAdapter = GROQ_ADAPTER

\* "function" together with "draw", no "image", routed to the text adapter
C3_Witness ==
  /\ Routed /\ AutoMode
  /\ Occurs(FunctionWord, probePrompt)
  /\ ~Occurs(CodeWord, probePrompt)
  /\ Occurs(<<"d", "r", "a", "w">>, probePrompt)
  /\ ~HasImageLiteral(probePrompt)
  /\ probeAdapter = GROQ_ADAPTER

\* C4: in auto mode a prompt without a code keyword goes to the image adapter
\* exactly when it contains an image keyword as a case-insensitive substring,
\* and to the text adapter otherwise.
C4_ImageIffKeyword ==
  (Routed /\ AutoMode /\ ~HasCodeKeyword(probePrompt))
  => /\ HasImageKeyword(probePrompt) <=> probeAdapter = GEMINI_ADAPTER
     /\ ~HasImageKeyword(probePrompt) <=> probeAdapter = GROQ_ADAPTER

\* an upper-case keyword inside a longer word ("x4Kx", "xDraw") is routed to
\* the image adapter
C4_Witness ==
  /\ Routed /\ AutoMode /\ ~HasCodeKeyword(probePrompt)
  /\ probeAdapter = GEMINI_ADAPTER
  /\ \E w \in IMAGE_KEYWORDS :
       /\ Occurs(w, probePrompt)
       /\ \A i \in 0..(Len(probePrompt) - Len(w)) :
            SubSeq(probePrompt, i + 1, i + Len(w)) # w
       /\ Len(probePrompt) > Len(w)
       /\ Head(probePrompt) = "x"

\* C5 as stated: in auto mode a prompt with a code keyword and the substring
\* "image" is routed to the image adapter.
C5_Original ==
  (Routed /\ AutoMode /\ HasCodeKeyword(probePrompt)
     /\ HasImageLiteral(probePrompt))
  => probeAdapter = GEMINI_ADAPTER

\* C5: in auto mode the code test has priority whether or not the substring
\* "image" is present: a prompt with a code keyword and the substring "image"
\* is routed to the text adapter.
C5_CodeBeatsImageLiteral ==
  (Routed /\ AutoMode /\ HasCodeKeyword(probePrompt)
     /\ HasImageLiteral(probePrompt))
  => probeAdapter = GROQ_ADAPTER

C5_Witness ==
  /\ Routed /\ AutoMode
  /\ HasCodeKeyword(probePrompt) /\ HasImageLiteral(probePrompt)
  /\ probeAdapter = GROQ_ADAPTER

(* ==================== properties of the image adapter ================= *)
\* the image adapter's generate has ended in the probe
ImageGenerated == probeAdapter = GEMINI_ADAPTER /\ probeOut # None

\* the primary provider was called and answered 200 with a payload holding
\* predictions[0].bytesBase64Encoded
PrimarySucceeded(o) ==
  /\ geminiKey
  /\ o.reply # None
  /\ ~o.reply.raised
  /\ o.reply.status = 200
  /\ o.reply.is_json
  /\ o.reply.doc = [predictions |-> << [bytesBase64Encoded |-> B64] >>]

\* number of spaces among the first n characters of p
SpacesBefore(p, n) == Cardinality({j \in 1..n : p[j] = " "})

\* e is p with every space written as %20 and every other character kept
IsSpaceEscaped(e, p) ==
  /\ Len(e) = Len(p) + 2 * SpacesBefore(p, Len(p))
  /\ \A i \in 1..Len(p) :
       LET at == i + 2 * SpacesBefore(p, i - 1)
       IN IF p[i] = " "
          THEN e[at] = "%" /\ e[at + 1] = "2" /\ e[at + 2] = "0"
          ELSE e[at] = p[i]

\* C1: generate never raises and returns an image result; the primary data
\* URI comes back only from a 200 answer with a well-formed payload, and in
\* every other case (exception, timeout, other status, malformed payload,
\* missing credential) the result is the fallback URL of the prompt with its
\* spaces written as %20.
C1_ImageGenerateTotal ==
  ImageGenerated =>
    /\ probeOut.end.kind = "return"
    /\ probeOut.end.value.type = "image"
    /\ IF PrimarySucceeded(probeOut)
       THEN probeOut.end.value.image_url = Text("data:image/png;base64,", B64)
       ELSE /\ probeOut.end.value.image_url.lit
                 = "https://image.pollinations.ai/prompt/"
            /\ IsSpaceEscaped(probeOut.end.value.image_url.chars, probePrompt)

\* a 200 answer without predictions for a prompt with a space ended in the
\* fallback URL
C1_Witness ==
  /\ ImageGenerated /\ geminiKey
  /\ ~probeOut.reply.raised /\ probeOut.reply.status = 200
  /\ ~PrimarySucceeded(probeOut)
  /\ \E i \in 1..Len(probePrompt) : probePrompt[i] = " "
  /\ probeOut.end.kind = "return"
  /\ probeOut.end.value.image_url.lit = "https://image.pollinations.ai/prompt/"

\* C6 as stated: an image result carries a note exactly when it came from
\* the fallback tier.
C6_NoteIffFallback ==
  (ImageGenerated /\ probeOut.end.kind = "return")
  => ("note" \in DOMAIN probeOut.end.value <=> ~PrimarySucceeded(probeOut))

(* ==================== properties of the /chat handler ================= *)
\* the step just taken delivered a /chat response
ChatDelivered == "op" \in DOMAIN lastReply /\ lastReply.op = "chat"

\* generate of the delivered request raised: the text adapter without a
\* client, or its upstream call failing; the message it raised with
TextGenerateFailed(d) ==
  d.request.adapter = GROQ_ADAPTER /\ (d.reply = None \/ d.reply.raised)

UpstreamMessage(d) ==
  IF d.reply = None THEN "GROQ_API_KEY missing" ELSE d.reply.msg

\* C7: a request routed to the text adapter whose generate fails is answered
\* with an error carrying the upstream message; it gets no image result and
\* the image provider is never called for it.
C7_TextFailureIsFatal ==
  /\ ChatDelivered /\ TextGenerateFailed(lastReply)
     => /\ lastReply.resp.status = 500
        /\ lastReply.resp.detail = UpstreamMessage(lastReply)
        /\ "output" \notin DOMAIN lastReply.resp
  /\ \A r \in Slots : req[r].adapter = GROQ_ADAPTER => req[r].pc # "posting"

\* the upstream Groq call raised and the caller got the 500
C7_Witness ==
  /\ ChatDelivered /\ groqKey
  /\ lastReply.request.adapter = GROQ_ADAPTER
  /\ lastReply.reply # None /\ lastReply.reply.raised
  /\ lastReply.resp.status = 500

\* the row a delivered request is expected to leave behind
IsRowOf(row, d) ==
  /\ row.user_id = d.request.user
  /\ row.session_id = d.request.session_id
  /\ row.prompt = d.request.prompt
  /\ row.model_used = d.request.adapter.name

\* C9: a row is stored only by a /chat call whose generate returned: a
\* request answered 200 appends exactly one row with its user id, session
\* id, prompt and adapter name; a request whose generate raised is answered
\* 500 and leaves the table as it was.
C9_RowOnlyOnSuccess ==
  [][ /\ history' # history
         => ChatDelivered' /\ ~TextGenerateFailed(lastReply')
      /\ ChatDelivered' /\ lastReply'.resp.status = 200
         => /\ Len(history') = Len(history) + 1
            /\ SubSeq(history', 1, Len(history)) = history
            /\ IsRowOf(history'[Len(history')], lastReply')
      /\ ChatDelivered' /\ TextGenerateFailed(lastReply')
         => lastReply'.resp.status = 500 /\ history' = history
    ]_vars

\* a 200 answer whose row was appended to a table that already had one
C9_Witness ==
  /\ ChatDelivered /\ lastReply.resp.status = 200
  /\ Len(history) >= 2
  /\ IsRowOf(history[Len(history)], lastReply)

\* requests that have arrived and are not answered yet
InFlight(q) == req[q].pc \in {"queued", "calling", "inline", "posting"}

\* the next step of an arrived request
Proceed(q) == WorkerTake(q) \/ GroqReturns(q) \/ GeminiAnswers(q)

\* the slot the next arriving request takes
NextSlot(q) == req[q].pc = "free" /\ \A k \in Slots : k < q => req[k].pc # "free"

\* the request waits in the executor queue for a worker thread
AwaitsWorker(q) ==
  req[q].pc = "queued" /\ (~WorkerAvailable \/ Head(workq) # q)

HistoryDelivered == "op" \in DOMAIN lastReply /\ lastReply.op = "history"
SessionsDelivered == "op" \in DOMAIN lastReply /\ lastReply.op = "sessions"

\* C10: /history/{session_id} and /sessions called by user u return only
\* entries of rows that u's own /chat calls added, also when another user
\* used the same session id, and /sessions lists no session id twice.
C10_OwnEntriesOnly ==
  /\ HistoryDelivered
     => \A i \in 1..Len(lastReply.body) :
          LET row == lastReply.body[i]
          IN /\ row.id \in 1..Len(history)
             /\ history[row.id] = row
             /\ author[row.id] = lastReply.user
  /\ SessionsDelivered
     => /\ \A i \in 1..Len(lastReply.body) :
             \E k \in 1..Len(history) :
               /\ author[k] = lastReply.user
               /\ lastReply.body[i].id = history[k].session_id
               /\ lastReply.body[i].title = Take(history[k].prompt, TitleLen)
               /\ lastReply.body[i].time = history[k].timestamp
        /\ \A i, j \in 1..Len(lastReply.body) :
             i # j => lastReply.body[i].id # lastReply.body[j].id

\* a non-empty /history answer for a session id another user has rows in
C10_Witness ==
  /\ HistoryDelivered /\ lastReply.body # <<>>
  /\ \E k \in 1..Len(history) :
       /\ history[k].session_id = lastReply.session_id
       /\ author[k] # lastReply.user

====
